---- MODULE Spec2Model ----
(***************************************************************************)
(* Nearest-location finder: three React pages that acquire the user's      *)
(* position, load a CSV dataset, and select the nearest record(s).         *)
(*   "hospital"  : src/unnamed/part_000      (single nearest, k = 1)       *)
(*   "location"  : src/app/page.js           (single nearest, k = 1)       *)
(*   "bloodbank" : src/app/bloodbank/page.js (three nearest,  k = 3)       *)
(*                                                                         *)
(* Representation.                                                         *)
(*  - A JS string is a sequence of text chunks; numeric text is one chunk  *)
(*    per character (<<"1","2">> is "12"), "" is <<>>.                      *)
(*  - null is the empty sequence for userLocation, error and               *)
(*    nearestLocation; a non-null value v is <<v>> (error: its chunks).    *)
(*  - A JS number is an integer; coordinates are whole degrees, distances  *)
(*    and angles are fixed point with Scale units per 1.0; NaN is a        *)
(*    reserved integer that every arithmetic operator propagates.          *)
(***************************************************************************)
EXTENDS Integers, Sequences, FiniteSets, TLC

\* ------------------------------------------------------------- bounds
\* Longest CSV (in data rows) the dataset fetch may deliver.
MaxRows == 3
\* Longest dataset handed to the selectors in SelSpec.
MaxLen == 4

\* ------------------------------------------------------------- numbers
\* Fixed-point unit: Scale stands for 1.0.
Scale == 10000
\* Math.PI in fixed point.
PiS == 31416
\* Earth's radius in km.
R == 6371
\* parseFloat's NaN.
NaN == -1000000000

IsNaN(x) == x = NaN

\* The arithmetic below is written as functions: a function's arguments are
\* values, so an argument is evaluated once however often the body reads it.

\* Division rounding toward zero (sign-symmetric, like IEEE rounding).
Div[a \in Int, b \in Int] == IF a >= 0 THEN a \div b ELSE -((-a) \div b)

\* Fixed-point product.
Mul[a \in Int, b \in Int] == Div[a * b, Scale]

Abs[x \in Int] == IF x < 0 THEN -x ELSE x

\* The Taylor polynomial of sin up to x^9.
SinPoly[x \in Int] ==
  LET x2 == Mul[x, x]
      t3 == Div[Mul[x, x2], 6]
      t5 == Div[Mul[t3, x2], 20]
      t7 == Div[Mul[t5, x2], 42]
      t9 == Div[Mul[t7, x2], 72]
  IN  x - t3 + t5 - t7 + t9

\* Math.sin on a fixed-point angle in [-PiS, PiS]: odd symmetry, reflection
\* about Pi/2, then the polynomial.
Sin[x \in Int] ==
  IF x < 0 THEN -SinPoly[IF 2 * (-x) > PiS THEN PiS + x ELSE -x]
  ELSE SinPoly[IF 2 * x > PiS THEN PiS - x ELSE x]

\* Math.cos on a fixed-point angle in [-PiS/2, PiS/2].
Cos[x \in Int] == Sin[Div[PiS, 2] - Abs[x]]

\* floor(sqrt(n)) by bisection of lo..hi.
ISqrtFrom[n \in Nat, lo \in Nat, hi \in Nat] ==
  IF lo >= hi THEN lo
  ELSE IF ((lo + hi + 1) \div 2) * ((lo + hi + 1) \div 2) <= n
       THEN ISqrtFrom[n, (lo + hi + 1) \div 2, hi]
       ELSE ISqrtFrom[n, lo, ((lo + hi + 1) \div 2) - 1]

\* Math.sqrt on a fixed-point value v in [0, 4 * Scale].
Sqrt[v \in Nat] == ISqrtFrom[v * Scale, 0, 2 * Scale]

\* One halving of atan's argument: atan(t) = 2 atan(t / (1 + sqrt(1 + t^2))).
AtanHalve[t \in Nat] == Div[t * Scale, Scale + Sqrt[Scale + Mul[t, t]]]

\* The Taylor polynomial of atan up to t^9.
AtanPoly[t \in Nat] ==
  LET t2 == Mul[t, t]
      p3 == Mul[t, t2]
      p5 == Mul[p3, t2]
      p7 == Mul[p5, t2]
      p9 == Mul[p7, t2]
  IN  t - Div[p3, 3] + Div[p5, 5] - Div[p7, 7] + Div[p9, 9]

\* atan of a fixed-point t in [0, Scale]: two halvings, then the polynomial.
Atan[t \in Nat] == 4 * AtanPoly[AtanHalve[AtanHalve[t]]]

\* Math.atan2(y, x) for y >= 0, x >= 0 (the only quadrant calculateDistance uses).
Atan2[y \in Nat, x \in Nat] ==
  IF y = 0 THEN 0
  ELSE IF x = 0 THEN Div[PiS, 2]
  ELSE IF y <= x THEN Atan[Div[y * Scale, x]]
  ELSE Div[PiS, 2] - Atan[Div[x * Scale, y]]

\* degrees * Math.PI / 180
ToRad[deg \in Int] == Div[deg * PiS, 180]

\* a, clamped to [0, Scale] against fixed-point rounding.
Clamp[a \in Int] == IF a > Scale THEN Scale ELSE IF a < 0 THEN 0 ELSE a

\* The haversine formula of calculateDistance on finite coordinates (whole
\* degrees), km in fixed point: a from the half-angle sines, c = 2 atan2, R * c.
HaversineC[a \in Nat] == 2 * Atan2[Sqrt[a], Sqrt[Scale - a]]

HaversineA[sLat \in Int, sLng \in Int, cos1 \in Int, cos2 \in Int] ==
  Clamp[Mul[sLat, sLat] + Mul[Mul[cos1, cos2], Mul[sLng, sLng]]]

Haversine[lat1 \in Int, lng1 \in Int, lat2 \in Int, lng2 \in Int] ==
  R * HaversineC[HaversineA[Sin[Div[ToRad[lat2 - lat1], 2]],
                            Sin[Div[ToRad[lng2 - lng1], 2]],
                            Cos[ToRad[lat1]], Cos[ToRad[lat2]]]]

\* calculateDistance with Math.cos(point1.lat ..) written twice.
calculateDistanceOneCosine(point1, point2) ==
  IF IsNaN(point1.lat) \/ IsNaN(point1.lng) \/ IsNaN(point2.lat) \/ IsNaN(point2.lng)
  THEN NaN
  ELSE R * HaversineC[HaversineA[Sin[Div[ToRad[point2.lat - point1.lat], 2]],
                                 Sin[Div[ToRad[point2.lng - point1.lng], 2]],
                                 Cos[ToRad[point1.lat]], Cos[ToRad[point1.lat]]]]

\* calculateDistance(point1, point2): NaN if a coordinate is NaN, else the
\* haversine distance.
calculateDistance(point1, point2) ==
  IF IsNaN(point1.lat) \/ IsNaN(point1.lng) \/ IsNaN(point2.lat) \/ IsNaN(point2.lng)
  THEN NaN
  ELSE Haversine[point1.lat, point1.lng, point2.lat, point2.lng]

\* ------------------------------------------------------------- strings
\* 'Not Available' / 'Unnamed Location': the display-attribute sentinels.
NotAvailable == <<"Not Available">>
UnnamedLocation == <<"Unnamed Location">>

Digits == <<"0", "1", "2", "3", "4", "5", "6", "7", "8", "9">>
IsDigit(c) == \E d \in 1..10 : Digits[d] = c
DigitVal(c) == (CHOOSE d \in 1..10 : Digits[d] = c) - 1

\* Number of digit chunks of s starting at position i.
RECURSIVE DigitRun(_, _)
DigitRun(s, i) ==
  IF i <= Len(s) /\ IsDigit(s[i]) THEN 1 + DigitRun(s, i + 1) ELSE 0

\* Value of the n digit chunks of s starting at position i.
RECURSIVE DigitsValue(_, _, _)
DigitsValue(s, i, n) ==
  IF n = 0 THEN 0 ELSE 10 * DigitsValue(s, i, n - 1) + DigitVal(s[i + n - 1])

\* Number of leading blank chunks of s from position i.
RECURSIVE BlankRun(_, _)
BlankRun(s, i) ==
  IF i <= Len(s) /\ s[i] = " " THEN 1 + BlankRun(s, i + 1) ELSE 0

\* parseFloat(s): skips leading blanks, reads an optional sign and the longest
\* run of digits, ignores whatever follows; NaN when there is no digit.
\* (The CSV values of the model hold no '.', exponent or 'Infinity'.)
parseFloat(s) ==
  LET b     == BlankRun(s, 1) + 1
      neg   == b <= Len(s) /\ s[b] = "-"
      start == IF b <= Len(s) /\ s[b] \in {"-", "+"} THEN b + 1 ELSE b
      n     == DigitRun(s, start)
  IN  IF n = 0 THEN NaN
      ELSE IF neg THEN -DigitsValue(s, start, n) ELSE DigitsValue(s, start, n)

\* ------------------------------------------------------------- dataset parser
Pages == {"hospital", "location", "bloodbank"}

\* The header each page reads for an attribute.
LatHeader(p) == IF p = "location" THEN "latitude" ELSE "LATITUDE"
LngHeader(p) == IF p = "location" THEN "longitude" ELSE "LONGITUDE"
NameHeader(p) ==
  CASE p = "hospital"  -> "Hospital Name"
    [] p = "location"  -> "name"
    [] p = "bloodbank" -> "Blood Bank Name"

\* item[h] is truthy: the key is present and its value is not ''.
Truthy(item, h) == h \in DOMAIN item /\ item[h] # <<>>

\* item[h] ?? dflt: an empty value is kept.
OrElseNullish(item, h, dflt) == IF h \in DOMAIN item THEN item[h] ELSE dflt

\* item[h] || dflt
OrElse(item, h, dflt) == IF Truthy(item, h) THEN item[h] ELSE dflt

\* .filter(item => parseFloat(item[LAT]) && parseFloat(item[LNG])): the test
\* made on the parsed numbers.
KeepRowParsed(p, item) ==
  /\ Truthy(item, LatHeader(p)) /\ Truthy(item, LngHeader(p))
  /\ parseFloat(item[LatHeader(p)]) \notin {0, NaN}
  /\ parseFloat(item[LngHeader(p)]) \notin {0, NaN}

\* .filter(item => item[LAT] && item[LNG])
KeepRow(p, item) == Truthy(item, LatHeader(p)) /\ Truthy(item, LngHeader(p))

\* .map(item => ({lat: parseFloat(..), lng: parseFloat(..), name: .. || sentinel, ..}))
MapRow(p, item) ==
  CASE p = "hospital" ->
         [lat     |-> parseFloat(item["LATITUDE"]),
          lng     |-> parseFloat(item["LONGITUDE"]),
          name    |-> OrElse(item, "Hospital Name", NotAvailable),
          address |-> OrElse(item, "Address", NotAvailable),
          pinCode |-> OrElse(item, "Pin Code", NotAvailable),
          phoneNo |-> OrElse(item, "PhONE NO", NotAvailable),
          fax     |-> OrElse(item, "Fax", NotAvailable)]
    [] p = "location" ->
         [lat  |-> parseFloat(item["latitude"]),
          lng  |-> parseFloat(item["longitude"]),
          name |-> OrElse(item, "name", UnnamedLocation)]
    [] p = "bloodbank" ->
         [lat     |-> parseFloat(item["LATITUDE"]),
          lng     |-> parseFloat(item["LONGITUDE"]),
          name    |-> OrElse(item, "Blood Bank Name", NotAvailable),
          address |-> OrElse(item, "Address", NotAvailable)]

\* results.data.filter(..).map(..): kept rows, in source order.
RECURSIVE ParseRows(_, _)
ParseRows(p, data) ==
  IF data = <<>> THEN <<>>
  ELSE IF KeepRow(p, Head(data))
       THEN <<MapRow(p, Head(data))>> \o ParseRows(p, Tail(data))
       ELSE ParseRows(p, Tail(data))

\* ------------------------------------------------------------- inputs
\* Data rows a CSV of page p may hold (results.data of Papa.parse, header: true).
RawRowPool(p) ==
  LET lat == LatHeader(p)
      lng == LngHeader(p)
      nm  == NameHeader(p)
  IN  { (lat :> <<"1", "0">>) @@ (lng :> <<"7", "0">>) @@ (nm :> <<"A">>),
        (lat :> <<"2", "0">>) @@ (lng :> <<"7", "0">>) @@ (nm :> <<"B">>)
                              @@ ("Address" :> <<"Main Road">>),
        (lat :> <<"1", "0">>) @@ (lng :> <<"8", "0">>) @@ (nm :> <<>>),
        (lat :> <<"1", "0">>) @@ (lng :> <<"6", "0">>) @@ (nm :> <<"D">>),
        (lat :> <<>>)         @@ (lng :> <<"7", "0">>) @@ (nm :> <<"E">>),
        (lat :> <<"n", "/", "a">>) @@ (lng :> <<"7", "0">>) @@ (nm :> <<"F">>) }

\* Sequences over S of length at most n.
SeqsUpTo(S, n) == UNION {[1..k -> S] : k \in 0..n}

\* The CSV texts the fetch may deliver, as their parsed data rows.
CsvTexts(p) == SeqsUpTo(RawRowPool(p), MaxRows)

\* Positions the location service may report.
Positions == {[lat |-> 10, lng |-> 70], [lat |-> 20, lng |-> 70]}

\* GeolocationPositionError messages.
GeoErrorMessages == {"User denied Geolocation", "Timeout expired"}
\* Messages of a rejected fetch / response.text().
FetchErrorMessages == {"Failed to fetch"}
\* Messages Papa.parse hands to its error callback.
ParseErrorMessages == {"Malformed CSV"}

\* ------------------------------------------------------------- nearest selector
\* {...rec, distance: d}
WithDistance(rec, d) == ("distance" :> d) @@ rec

\* distance <= minDistance (a comparison with NaN is false).
CloserOrEqual(distance, minDistance) ==
  ~IsNaN(distance) /\ ~IsNaN(minDistance) /\ distance <= minDistance

\* distance < minDistance (a comparison with NaN is false).
Closer(distance, minDistance) ==
  ~IsNaN(distance) /\ ~IsNaN(minDistance) /\ distance < minDistance

\* The for loop of findNearestLocation, from (1-based) index i on.
NearestScan[userLoc \in Any, locationsList \in Any, i \in Nat, nearestLoc \in Any, minDistance \in Int] ==
  IF i > Len(locationsList) THEN <<nearestLoc, minDistance>>
  ELSE IF Closer(calculateDistance(userLoc, locationsList[i]), minDistance)
       THEN NearestScan[userLoc, locationsList, i + 1, locationsList[i],
                        calculateDistance(userLoc, locationsList[i])]
       ELSE NearestScan[userLoc, locationsList, i + 1, nearestLoc, minDistance]

\* return { ...nearestLoc, distance: minDistance } for the scan's result r.
ReturnNearest[r \in Any] == <<WithDistance(r[1], r[2])>>

\* findNearestLocation(userLoc, locationsList): null (<<>>) or <<record>>.
findNearestLocation(userLoc, locationsList) ==
  IF Len(locationsList) = 0 THEN <<>>
  ELSE ReturnNearest[NearestScan[userLoc, locationsList, 2, locationsList[1],
                                 calculateDistance(userLoc, locationsList[1])]]

\* How many entries findNearestBloodBanks returns at most: slice(0, 3).
SliceEnd == 3

\* (a, b) => b.distance - a.distance
compareDescending(a, b) ==
  IF IsNaN(a.distance) \/ IsNaN(b.distance) THEN 0 ELSE b.distance - a.distance

\* (a, b) => a.distance - b.distance; Array.prototype.sort reads a NaN result as +0.
compare(a, b) ==
  IF IsNaN(a.distance) \/ IsNaN(b.distance) THEN 0 ELSE a.distance - b.distance

\* Array.prototype.sort is stable: x, which came after every element of s,
\* goes before the first element that compares strictly greater.
InsertSorted[x \in Any, s \in Any] ==
  IF s = <<>> THEN <<x>>
  ELSE IF compare(x, Head(s)) < 0 THEN <<x>> \o s
  ELSE <<Head(s)>> \o InsertSorted[x, Tail(s)]

StableSort[s \in Any] ==
  IF s = <<>> THEN <<>>
  ELSE InsertSorted[s[Len(s)], StableSort[SubSeq(s, 1, Len(s) - 1)]]

\* compare is a consistent comparator on s: "compares equal" is transitive.
ConsistentComparator(s) ==
  \A i, j, k \in 1..Len(s) :
    (compare(s[i], s[j]) = 0 /\ compare(s[j], s[k]) = 0) => compare(s[i], s[k]) = 0

\* The orders s.sort(compare) may leave: the stable ascending order, or, when
\* compare is not a consistent comparator (a NaN distance among different
\* distances), an implementation-defined order: any permutation.
SortOutcomes[s \in Any] ==
  IF ConsistentComparator(s) THEN {StableSort[s]}
  ELSE {[i \in 1..Len(s) |-> s[p[i]]] : p \in Permutations(1..Len(s))}

\* s.slice(0, n)
Slice(s, n) == SubSeq(s, 1, IF Len(s) < n THEN Len(s) ELSE n)

\* bloodBanksList.map(bank => ({...bank, distance: calculateDistance(userLoc, bank)}))
bloodBanksWithDistances[userLoc \in Any, bloodBanksList \in Any] ==
  [i \in 1..Len(bloodBanksList) |->
     WithDistance(bloodBanksList[i], calculateDistance(userLoc, bloodBanksList[i]))]

\* findNearestBloodBanks(userLoc, bloodBanksList): the set of possible results.
findNearestBloodBanks(userLoc, bloodBanksList) ==
  IF Len(bloodBanksList) = 0 THEN {<<>>}
  ELSE {Slice(sortedBloodBanks, SliceEnd) :
          sortedBloodBanks \in SortOutcomes[bloodBanksWithDistances[userLoc, bloodBanksList]]}

\* What the page's selector may return for (userLoc, list).
SelectorOutcomes(p, userLoc, list) ==
  IF p = "bloodbank" THEN findNearestBloodBanks(userLoc, list)
  ELSE {findNearestLocation(userLoc, list)}

\* bloodBanksList after a sort made on the list itself: reordered as
\* sortedBloodBanks, each entry without its distance.
InputSortedInPlace(bloodBanksList, sortedBloodBanks) ==
  [i \in 1..Len(bloodBanksList) |->
     [k \in DOMAIN bloodBanksList[i] |-> sortedBloodBanks[i][k]]]

\* bloodBanksList after findNearestBloodBanks: .sort() sorts, in place, the
\* array .map() returned, and the list passed in is left as it was.
InputAfterSort(bloodBanksList, sortedBloodBanks) == bloodBanksList

\* The runs of the page's selector on (userLoc, list): what it returns, and
\* the list passed in as the call leaves it.
SelectorRuns(p, userLoc, list) ==
  IF p = "bloodbank" /\ Len(list) > 0
  THEN {[result |-> Slice(sortedBloodBanks, SliceEnd),
         input  |-> InputAfterSort(list, sortedBloodBanks)] :
          sortedBloodBanks \in SortOutcomes[bloodBanksWithDistances[userLoc, list]]}
  ELSE {[result |-> r, input |-> list] : r \in SelectorOutcomes(p, userLoc, list)}

\* ------------------------------------------------------------- state
VARIABLES
  page,          \* which page this session renders
  geolocation,   \* navigator.geolocation is available
  mounted,       \* the mount effects have run
  userLocation,  \* useState(null): <<>> or <<[lat, lng]>>
  isLoading,     \* useState(true) (bloodbank: useState(false))
  error,         \* useState(null): <<>> or the message's chunks
  nearest,       \* nearestLocation (<<>> is null) / nearestBloodBanks
  locations,     \* locations / bloodBanks: the stored dataset
  mapUrl,        \* useState(''): <<>> or the <<lat, lng>> in the URL
  geoPending,    \* getCurrentPosition calls whose callback is still due
  fetchSt,       \* "idle", "fetching" (fetch sent), "reading" (response ok), "done"
  effectPending, \* the nearest effect is scheduled to run (a dependency was set)
  \* history
  geoCalls,      \* getCurrentPosition calls issued
  fetchCalls,    \* dataset fetches issued
  posWrites,     \* setUserLocation calls
  dsWrites,      \* setLocations / setBloodBanks calls
  selCalls,      \* selector invocations
  posError,      \* the position error reported, <<>> if none
  dsError,       \* the dataset error reported, <<>> if none
  firstDone      \* which value was stored first: "none", "position", "dataset"

vars == <<page, geolocation, mounted, userLocation, isLoading, error, nearest,
          locations, mapUrl, geoPending, fetchSt, effectPending, geoCalls,
          fetchCalls, posWrites, dsWrites, selCalls, posError, dsError, firstDone>>

\* ------------------------------------------------------------- messages
UnsupportedMessage == <<"Geolocation is not supported by this browser.">>
PositionErrorMessage(m) == <<"Error getting location: ", m>>
ParseErrorMessage(m) == <<"Error parsing CSV: ", m>>
LoadErrorMessage(p, m) ==
  IF p = "bloodbank" THEN <<"Error loading blood bank data: ", m>>
  ELSE <<"Error loading locations data: ", m>>
\* new Error('Failed to load ...') thrown on a response that is not ok.
NotOkMessage(p) ==
  IF p = "bloodbank" THEN "Failed to load blood bank data"
  ELSE "Failed to load locations data"

\* ------------------------------------------------------------- construction
Init ==
  /\ page \in Pages
  /\ geolocation \in BOOLEAN
  /\ mounted = FALSE
  /\ userLocation = <<>>
  /\ isLoading = (page # "bloodbank")
  /\ error = <<>>
  /\ nearest = <<>>
  /\ locations = <<>>
  /\ mapUrl = <<>>
  /\ geoPending = 0
  /\ fetchSt = "idle"
  /\ effectPending = FALSE
  /\ geoCalls = 0
  /\ fetchCalls = 0
  /\ posWrites = 0
  /\ dsWrites = 0
  /\ selCalls = 0
  /\ posError = <<>>
  /\ dsError = <<>>
  /\ firstDone = "none"

\* ------------------------------------------------------------- position path
\* RequestPosition without setIsLoading(false) in the unsupported branch.
RequestPositionLoadingKept(loadingWhilePending) ==
  IF geolocation
  THEN /\ isLoading' = loadingWhilePending
       /\ geoPending' = geoPending + 1
       /\ geoCalls' = geoCalls + 1
       /\ UNCHANGED <<error, posError>>
  ELSE /\ error' = UnsupportedMessage
       /\ posError' = UnsupportedMessage
       /\ isLoading' = loadingWhilePending
       /\ UNCHANGED <<geoPending, geoCalls>>

\* The body shared by the hospital/location mount effect and fetchUserLocation:
\* request the position, or report that geolocation is unsupported.
\* loadingWhilePending is isLoading after the call was issued.
RequestPosition(loadingWhilePending) ==
  IF geolocation
  THEN /\ isLoading' = loadingWhilePending
       /\ geoPending' = geoPending + 1
       /\ geoCalls' = geoCalls + 1
       /\ UNCHANGED <<error, posError>>
  ELSE /\ error' = UnsupportedMessage
       /\ posError' = UnsupportedMessage
       /\ isLoading' = FALSE
       /\ UNCHANGED <<geoPending, geoCalls>>

\* Mount: the effects with [] dependencies run once, in source order; the
\* nearest effect's first run finds userLocation null and does nothing.
Mount ==
  /\ ~mounted
  /\ mounted' = TRUE
  /\ IF page = "bloodbank"
     THEN UNCHANGED <<isLoading, geoPending, geoCalls, error, posError>>
     ELSE RequestPosition(isLoading)
  /\ fetchSt' = "fetching"
  /\ fetchCalls' = fetchCalls + 1
  /\ UNCHANGED <<page, geolocation, userLocation, nearest, locations, mapUrl,
                 effectPending, posWrites, dsWrites, selCalls, dsError, firstDone>>

\* The 'Grant Location Access' button is rendered without the !error test.
ButtonVisibleDespiteError == userLocation = <<>> /\ ~isLoading

\* The 'Grant Location Access' button is rendered without the !isLoading test.
ButtonVisibleWhileLoading == userLocation = <<>> /\ error = <<>>

\* The 'Grant Location Access' button is rendered.
ButtonVisible == userLocation = <<>> /\ ~isLoading /\ error = <<>>

\* onClick={fetchUserLocation} (bloodbank page only).
GrantLocationAccess ==
  /\ mounted
  /\ page = "bloodbank"
  /\ ButtonVisible
  /\ RequestPosition(TRUE)
  /\ UNCHANGED <<page, geolocation, mounted, userLocation, nearest, locations,
                 mapUrl, fetchSt, effectPending, fetchCalls, posWrites, dsWrites,
                 selCalls, dsError, firstDone>>

\* isLoading after a success callback without setIsLoading(false).
LoadingKeptAfterPosition == isLoading

\* isLoading after the success callback: setIsLoading(false).
LoadingAfterPosition == FALSE

\* getCurrentPosition's success callback.
PositionSuccess(position) ==
  /\ geoPending > 0
  /\ geoPending' = geoPending - 1
  /\ userLocation' = <<[lat |-> position.lat, lng |-> position.lng]>>
  /\ mapUrl' = <<position.lat, position.lng>>
  /\ isLoading' = LoadingAfterPosition
  /\ effectPending' = TRUE
  /\ posWrites' = posWrites + 1
  /\ firstDone' = IF firstDone = "none" THEN "position" ELSE firstDone
  /\ UNCHANGED <<page, geolocation, mounted, error, nearest, locations, fetchSt,
                 geoCalls, fetchCalls, dsWrites, selCalls, posError, dsError>>

\* getCurrentPosition's error callback.
PositionFailure(m) ==
  /\ geoPending > 0
  /\ geoPending' = geoPending - 1
  /\ error' = PositionErrorMessage(m)
  /\ posError' = PositionErrorMessage(m)
  /\ isLoading' = FALSE
  /\ UNCHANGED <<page, geolocation, mounted, userLocation, nearest, locations,
                 mapUrl, fetchSt, effectPending, geoCalls, fetchCalls, posWrites,
                 dsWrites, selCalls, dsError, firstDone>>

\* ------------------------------------------------------------- dataset path
datasetFrame == <<page, geolocation, mounted, userLocation, isLoading, nearest,
                  mapUrl, geoPending, geoCalls, fetchCalls, posWrites, selCalls,
                  posError>>

\* The dataset path ends with setError(msg) and setIsLoading(false).
DatasetFailsStopsLoading(msg) ==
  /\ fetchSt' = "done"
  /\ error' = msg
  /\ dsError' = msg
  /\ isLoading' = FALSE
  /\ UNCHANGED <<effectPending, dsWrites, firstDone>>
  /\ UNCHANGED <<page, geolocation, mounted, userLocation, nearest, mapUrl, geoPending,
                 geoCalls, fetchCalls, posWrites, selCalls, posError>>

\* The dataset path ends with setError(msg).
DatasetFails(msg) ==
  /\ fetchSt' = "done"
  /\ error' = msg
  /\ dsError' = msg
  /\ UNCHANGED <<effectPending, dsWrites, firstDone>>
  /\ UNCHANGED datasetFrame

\* fetch resolves with response.ok: response.text() is read next.
ResponseOk ==
  /\ fetchSt = "fetching"
  /\ fetchSt' = "reading"
  /\ UNCHANGED <<locations, error, dsError, effectPending, dsWrites, firstDone>>
  /\ UNCHANGED datasetFrame

\* fetch resolves with !response.ok: throw, caught by .catch.
ResponseNotOk ==
  /\ fetchSt = "fetching"
  /\ DatasetFails(LoadErrorMessage(page, NotOkMessage(page)))
  /\ UNCHANGED locations

\* fetch or response.text() rejects: .catch.
FetchRejected(m) ==
  /\ fetchSt \in {"fetching", "reading"}
  /\ DatasetFails(LoadErrorMessage(page, m))
  /\ UNCHANGED locations

\* The nearest effect's dependency array names the dataset.
DatasetNotInDeps == FALSE
DatasetInDeps == TRUE

\* The error after a complete callback that reports a dataset without records.
ErrorWhenNothingParsed(parsedLocations) ==
  IF parsedLocations = <<>> THEN <<"No locations found">> ELSE error

\* The error after Papa.parse's complete callback: it does not call setError.
ErrorAfterParseComplete(parsedLocations) == error

\* Papa.parse's complete callback: filter, map, setLocations.
ParseComplete(csv) ==
  /\ fetchSt = "reading"
  /\ fetchSt' = "done"
  /\ locations' = ParseRows(page, csv)
  /\ error' = ErrorAfterParseComplete(ParseRows(page, csv))
  /\ dsWrites' = dsWrites + 1
  /\ effectPending' = (effectPending \/ DatasetInDeps)
  /\ firstDone' = IF firstDone = "none" THEN "dataset" ELSE firstDone
  /\ UNCHANGED dsError
  /\ UNCHANGED datasetFrame

\* The dataset after Papa.parse's error callback, had it kept the rows read so far.
LocationsKeptOnParseError(csv) == ParseRows(page, csv)

\* The dataset after Papa.parse's error callback on text csv: not written.
LocationsOnParseError(csv) == locations

\* Papa.parse's error callback (Papa.parse ends in complete or in error, once).
ParseError(csv, m) ==
  /\ fetchSt = "reading"
  /\ DatasetFails(ParseErrorMessage(m))
  /\ locations' = LocationsOnParseError(csv)

\* ------------------------------------------------------------- nearest effect
\* if (userLocation) without the dataset test.
NearestGuardPositionOnly == userLocation # <<>>

\* if (userLocation && locations.length > 0)
NearestGuard == userLocation # <<>> /\ Len(locations) > 0

\* useEffect(.., [userLocation, locations]): runs after a render in which a
\* dependency was set.
NearestEffect ==
  /\ effectPending
  /\ effectPending' = FALSE
  /\ IF NearestGuard
     THEN /\ \E run \in SelectorRuns(page, userLocation[1], locations) :
               /\ nearest' = run.result
               /\ locations' = run.input
          /\ selCalls' = selCalls + 1
     ELSE UNCHANGED <<nearest, locations, selCalls>>
  /\ UNCHANGED <<page, geolocation, mounted, userLocation, isLoading, error,
                 mapUrl, geoPending, fetchSt, geoCalls, fetchCalls,
                 posWrites, dsWrites, posError, dsError, firstDone>>

\* ------------------------------------------------------------- specifications
Next ==
  \/ Mount
  \/ GrantLocationAccess
  \/ \E position \in Positions : PositionSuccess(position)
  \/ \E m \in GeoErrorMessages : PositionFailure(m)
  \/ ResponseOk
  \/ ResponseNotOk
  \/ \E m \in FetchErrorMessages : FetchRejected(m)
  \/ \E csv \in CsvTexts(page) : ParseComplete(csv)
  \/ \E csv \in CsvTexts(page), m \in ParseErrorMessages : ParseError(csv, m)
  \/ NearestEffect

Spec == Init /\ [][Next]_vars

\* React runs the mount effects and every scheduled effect; the location
\* service and the network owe no answer.
FairSpec == Spec /\ WF_vars(Mount) /\ WF_vars(NearestEffect)

\* The selectors on their own: both values stored (dataset first, every
\* coordinate finite), the nearest effect scheduled.
FiniteRecords(p) ==
  {rec \in {MapRow(p, item) : item \in {i \in RawRowPool(p) : KeepRow(p, i)}} :
     ~IsNaN(rec.lat) /\ ~IsNaN(rec.lng)}

SelInit ==
  /\ page \in Pages
  /\ geolocation = TRUE
  /\ mounted = TRUE
  /\ \E position \in Positions :
       /\ userLocation = <<position>>
       /\ mapUrl = <<position.lat, position.lng>>
  /\ isLoading = FALSE
  /\ error = <<>>
  /\ nearest = <<>>
  /\ locations \in SeqsUpTo(FiniteRecords(page), MaxLen)
  /\ geoPending = 0
  /\ fetchSt = "done"
  /\ effectPending = TRUE
  /\ geoCalls = 1
  /\ fetchCalls = 1
  /\ posWrites = 1
  /\ dsWrites = 1
  /\ selCalls = 0
  /\ posError = <<>>
  /\ dsError = <<>>
  /\ firstDone = "dataset"

SelNext == NearestEffect

SelSpec == SelInit /\ [][SelNext]_vars

\* ------------------------------------------------------------- properties
\* Both prerequisite values are stored: a position and a non-empty dataset.
BothStored == userLocation # <<>> /\ Len(locations) > 0

\* The results are what the page's selector returns for the stored values.
Selected ==
  /\ BothStored
  /\ nearest \in SelectorOutcomes(page, userLocation[1], locations)

\* C1: the results are non-empty, and the selector has been invoked, only if
\* the position acquisition has stored a position and the dataset load has
\* stored a non-empty dataset, whichever of the two completed first.
C1_SelectorOnlyWhenBothStored ==
  (nearest # <<>> \/ selCalls > 0) =>
    (BothStored /\ posWrites >= 1 /\ dsWrites >= 1)

C1_Witness ==
  nearest # <<>> /\ selCalls = 1 /\ firstDone = "dataset" /\ page = "bloodbank"

\* C2: once a position and a non-empty dataset are stored, in either order,
\* the session eventually reaches, and stays in, the state where the results
\* are the selector's output for the stored position and dataset.
C2_EventuallySelected == BothStored ~> [](Selected /\ ~effectPending)

C2_Witness ==
  Selected /\ ~effectPending /\ firstDone = "position" /\ page = "hospital"

\* The location service has reported a failure through the error callback.
PositionFailureReported == posError # <<>> /\ posError[1] = "Error getting location: "

\* C3: once the location service has reported a failure, the session error
\* is that position error, in that state and in every later one, whatever
\* the dataset load does afterwards.
C3_PositionErrorPersists == PositionFailureReported => error = posError

\* C4: an error on one path never blocks the other: after a position error
\* the dataset can still be stored, and after a dataset error the position
\* can still be requested (if it was not yet) and stored (if it is due).
C4_OtherPathStillCompletes ==
  /\ (posError # <<>> /\ fetchSt = "reading") =>
       ENABLED (\E csv \in CsvTexts(page) : ParseComplete(csv))
  /\ (dsError # <<>> /\ geoPending > 0) =>
       ENABLED (\E position \in Positions : PositionSuccess(position))
  /\ (dsError # <<>> /\ mounted /\ geoCalls = 0 /\ posError = <<>>) =>
       ENABLED GrantLocationAccess

\* C5: once the session error is non-null it is never cleared, the failed
\* acquisition is never issued again, and the results are and stay empty.
C5_ErrorsAreTerminal ==
  [][error # <<>> =>
       /\ error' # <<>>
       /\ nearest = <<>> /\ nearest' = <<>>
       /\ (posError # <<>> => geoCalls' = geoCalls)
       /\ (dsError # <<>> => fetchCalls' = fetchCalls)]_vars

C5_Witness ==
  /\ posError # <<>> /\ error = posError
  /\ Len(locations) > 0 /\ ~effectPending /\ fetchSt = "done"

\* C6: when the dataset load has failed and no location request is
\* outstanding, loading is false and the error shown is the dataset error.
C6_DatasetErrorShown ==
  (dsError # <<>> /\ mounted /\ geoPending = 0) =>
    (~isLoading /\ error = dsError)

\* C7: a dataset load yields a dataset or a dataset error, never both: with a
\* dataset error recorded nothing was stored and the stored dataset is empty.
C7_DatasetOrErrorNeverBoth ==
  dsError # <<>> => (locations = <<>> /\ dsWrites = 0)

C7_Witness ==
  dsError # <<>> /\ dsError[1] = "Error parsing CSV: " /\ fetchSt = "done"

\* C8: at most one location request is issued, the position and the dataset
\* are each written at most once, and neither changes after its first write.
C8_WrittenOnce ==
  [][/\ geoCalls' <= 1 /\ posWrites' <= 1 /\ dsWrites' <= 1
     /\ (posWrites >= 1 => userLocation' = userLocation)
     /\ (dsWrites >= 1 => locations' = locations)]_vars

C8_Witness ==
  /\ page = "bloodbank" /\ geoCalls = 1 /\ posWrites = 1 /\ dsWrites = 1
  /\ geoPending = 0 /\ fetchSt = "done" /\ ~effectPending

\* Distance from the stored position to the i-th stored record.
DistanceTo(i) == calculateDistance(userLocation[1], locations[i])

\* C9: the single-nearest selector returns the record at the first index of
\* the dataset whose distance is the minimum over the dataset, with that
\* distance.
C9_SingleNearestIsFirstMinimum ==
  (page # "bloodbank" /\ selCalls > 0) =>
    \E i \in 1..Len(locations) :
      /\ \A j \in 1..Len(locations) : DistanceTo(i) <= DistanceTo(j)
      /\ \A j \in 1..(i - 1) : DistanceTo(j) > DistanceTo(i)
      /\ nearest = <<WithDistance(locations[i], DistanceTo(i))>>

\* The minimum is shared by two different records, neither of them first.
C9_Witness ==
  /\ page = "hospital" /\ selCalls = 1
  /\ \E i, j \in 2..Len(locations) :
       /\ i < j
       /\ locations[i] # locations[j]
       /\ DistanceTo(i) = DistanceTo(j)
       /\ \A k \in 1..Len(locations) : DistanceTo(i) <= DistanceTo(k)
       /\ DistanceTo(1) > DistanceTo(i)

\* Record j precedes record i in the stable ascending order by distance.
Precedes(j, i) ==
  DistanceTo(j) < DistanceTo(i) \/ (DistanceTo(j) = DistanceTo(i) /\ j < i)

\* The place of record i in the stable ascending order by distance.
StableRank(i) ==
  1 + Cardinality({j \in 1..Len(locations) : j # i /\ Precedes(j, i)})

\* result is the first min(3, |D|) entries of the stable ascending sort of the
\* stored dataset by distance: the record of stable rank r is the r-th entry,
\* for every r up to 3.
IsStablePrefix(result) ==
  /\ Len(result) = (IF Len(locations) < 3 THEN Len(locations) ELSE 3)
  /\ \A i \in 1..Len(locations) :
       StableRank(i) <= 3 =>
         result[StableRank(i)] = WithDistance(locations[i], DistanceTo(i))

\* C10: the multi-nearest selector returns the first min(3, |D|) entries of
\* the stable ascending sort of D by distance to P: what the effect stored
\* from it and, for the empty dataset (on which the effect does not call it),
\* what the selector returns.
C10_ThreeNearestStablePrefix ==
  (page = "bloodbank" /\ ~effectPending) =>
    /\ selCalls > 0 => IsStablePrefix(nearest)
    /\ selCalls = 0 =>
         \A result \in findNearestBloodBanks(userLocation[1], locations) :
           IsStablePrefix(result)

\* Four records, one dropped, with a tie between different records that the
\* sort had to move.
C10_Witness ==
  /\ page = "bloodbank" /\ selCalls = 1 /\ Len(locations) = 4
  /\ \E i, j \in 1..4 :
       /\ i < j /\ locations[i] # locations[j]
       /\ DistanceTo(i) = DistanceTo(j)
       /\ StableRank(j) <= 3
       /\ StableRank(i) # i

\* C11: every record of the stored dataset has a latitude and a longitude
\* that are both finite numbers.
C11_StoredCoordinatesAreFinite ==
  \A i \in 1..Len(locations) :
    ~IsNaN(locations[i].lat) /\ ~IsNaN(locations[i].lng)

\* ------------------------------------------------------------- the parser on its own
\* Longest CSV (in data rows) handed to the parser in ParseSpec.
MaxParseRows == 3

\* Data rows for the parser: every attribute present; zero coordinates with
\* an empty name and postal code, no address and fax, and the phone column
\* under another spelling; an empty latitude; no latitude key; a latitude that
\* is no number.
ParserRowPool(p) ==
  LET lat == LatHeader(p)
      lng == LngHeader(p)
      nm  == NameHeader(p)
  IN  { (lat :> <<"1", "0">>) @@ (lng :> <<"7", "0">>) @@ (nm :> <<"A">>)
          @@ ("Address" :> <<"Main Road">>) @@ ("Pin Code" :> <<"560001">>)
          @@ ("PhONE NO" :> <<"080-1">>) @@ ("Fax" :> <<"080-2">>),
        (lat :> <<"0">>) @@ (lng :> <<"0">>) @@ (nm :> <<>>)
          @@ ("Pin Code" :> <<>>) @@ ("Phone No" :> <<"080-3">>),
        (lat :> <<>>) @@ (lng :> <<"7", "0">>) @@ (nm :> <<"E">>),
        (lng :> <<"7", "0">>) @@ (nm :> <<"G">>),
        (lat :> <<"n", "/", "a">>) @@ (lng :> <<"7", "0">>) @@ (nm :> <<"F">>) }

ParserCsvTexts(p) == SeqsUpTo(ParserRowPool(p), MaxParseRows)

\* The session when response.text() has resolved: mounted, the dataset text
\* read, the position not yet delivered (bloodbank: not yet requested).
ParseInit ==
  /\ page \in Pages
  /\ geolocation = TRUE
  /\ mounted = TRUE
  /\ userLocation = <<>>
  /\ isLoading = (page # "bloodbank")
  /\ error = <<>>
  /\ nearest = <<>>
  /\ locations = <<>>
  /\ mapUrl = <<>>
  /\ geoPending = (IF page = "bloodbank" THEN 0 ELSE 1)
  /\ fetchSt = "reading"
  /\ effectPending = FALSE
  /\ geoCalls = (IF page = "bloodbank" THEN 0 ELSE 1)
  /\ fetchCalls = 1
  /\ posWrites = 0
  /\ dsWrites = 0
  /\ selCalls = 0
  /\ posError = <<>>
  /\ dsError = <<>>
  /\ firstDone = "none"

ParseNext == \E csv \in ParserCsvTexts(page) : ParseComplete(csv)

ParseSpec == ParseInit /\ [][ParseNext]_vars

\* The field h of item is the text of a number: a non-empty run of digits.
NumericField(item, h) ==
  /\ h \in DOMAIN item
  /\ item[h] # <<>>
  /\ \A k \in 1..Len(item[h]) : item[h][k] \in {"0", "1", "2", "3", "4", "5", "6", "7", "8", "9"}

\* The indices of the rows of csv whose latitude and longitude are numbers.
NumericRows(p, csv) ==
  {i \in 1..Len(csv) : NumericField(csv[i], LatHeader(p)) /\ NumericField(csv[i], LngHeader(p))}

\* The k-th smallest index of the set rows.
KthOf(rows, k) == CHOOSE i \in rows : Cardinality({j \in rows : j < i}) = k - 1

\* csv without its i-th row.
WithoutRow(csv, i) == SubSeq(csv, 1, i - 1) \o SubSeq(csv, i + 1, Len(csv))

\* The records of dataset whose coordinates are both finite.
FiniteOnly(dataset) ==
  SelectSeq(dataset, LAMBDA rec : ~IsNaN(rec.lat) /\ ~IsNaN(rec.lng))

\* A coordinate field of item is absent or empty.
MissingCoordinate(p, item) ==
  \/ LatHeader(p) \notin DOMAIN item
  \/ LngHeader(p) \notin DOMAIN item
  \/ item[LatHeader(p)] = <<>>
  \/ item[LngHeader(p)] = <<>>

\* The finite records of dataset are the records of the numeric rows of csv,
\* all of them and in source order, and dataset is the same without any one
\* of the rows that miss a coordinate.
KeepsNumericRowsInOrder(p, csv, dataset) ==
  /\ Len(FiniteOnly(dataset)) = Cardinality(NumericRows(p, csv))
  /\ \A k \in 1..Len(FiniteOnly(dataset)) :
       FiniteOnly(dataset)[k] = MapRow(p, csv[KthOf(NumericRows(p, csv), k)])
  /\ \A i \in 1..Len(csv) :
       MissingCoordinate(p, csv[i]) => ParseRows(p, WithoutRow(csv, i)) = dataset

\* C12: the parser keeps every source row whose latitude and longitude are
\* numbers (0 included), in source order, and a dropped row changes neither
\* the presence nor the order of the others.
C12_KeepsNumericRowsInOrder ==
  [][\A csv \in ParserCsvTexts(page) :
       ParseComplete(csv) => KeepsNumericRowsInOrder(page, csv, locations')]_vars

\* A row with zero coordinates was kept, ahead of a later row.
C12_Witness ==
  /\ dsWrites = 1 /\ Len(locations) = 2
  /\ locations[1].lat = 0 /\ locations[1].lng = 0
  /\ locations[2].lat = 10

\* The header a display attribute is read from.
AttributeHeader(p, a) ==
  CASE a = "name"    -> NameHeader(p)
    [] a = "address" -> "Address"
    [] a = "pinCode" -> "Pin Code"
    [] a = "phoneNo" -> "PhONE NO"
    [] a = "fax"     -> "Fax"

\* The record rec carries, for each attribute of attrs, the row's value when
\* that is present and not empty, and sentinel otherwise.
AttributesFilled(p, item, rec, attrs, sentinel) ==
  \A a \in attrs :
    /\ a \in DOMAIN rec
    /\ rec[a] = (IF AttributeHeader(p, a) \in DOMAIN item /\ item[AttributeHeader(p, a)] # <<>>
                 THEN item[AttributeHeader(p, a)]
                 ELSE sentinel)

\* Every row of csv with valid coordinates is kept in dataset, its record
\* filled for attrs(p) with sentinel(p).
RowsKeptAndFilled(p, csv, dataset, attrs(_), sentinel(_)) ==
  /\ Len(FiniteOnly(dataset)) = Cardinality(NumericRows(p, csv))
  /\ \A k \in 1..Len(FiniteOnly(dataset)) :
       AttributesFilled(p, csv[KthOf(NumericRows(p, csv), k)], FiniteOnly(dataset)[k],
                        attrs(p), sentinel(p))

\* The display attributes as the claim lists them: name and address, and for
\* the hospital variant postal code, phone and fax.
ListedAttributes(p) ==
  IF p = "hospital" THEN {"name", "address", "pinCode", "phoneNo", "fax"}
  ELSE {"name", "address"}

ListedSentinel(p) == NotAvailable

\* The display attributes each page's record carries, and the page's sentinel.
CarriedAttributes(p) ==
  CASE p = "hospital"  -> {"name", "address", "pinCode", "phoneNo", "fax"}
    [] p = "bloodbank" -> {"name", "address"}
    [] p = "location"  -> {"name"}

CarriedSentinel(p) == IF p = "location" THEN UnnamedLocation ELSE NotAvailable

\* C13 as stated: every row with valid coordinates is kept, and each of name,
\* address (hospital: and postal code, phone, fax) that is absent or empty in
\* the row is 'Not Available' in the record, a present one copied unchanged.
C13_NotAvailableForListedAttributes ==
  [][\A csv \in ParserCsvTexts(page) :
       ParseComplete(csv) =>
         RowsKeptAndFilled(page, csv, locations', ListedAttributes, ListedSentinel)]_vars

\* C13, amended: every row with valid coordinates is kept, and each display
\* attribute the page's record carries (hospital: name, address, postal code,
\* phone, fax; blood bank: name, address; location page: name only) that is
\* absent or empty in the row is the page's sentinel ('Not Available';
\* 'Unnamed Location' on the location page), a present one copied unchanged.
C13_SentinelForCarriedAttributes ==
  [][\A csv \in ParserCsvTexts(page) :
       ParseComplete(csv) =>
         RowsKeptAndFilled(page, csv, locations', CarriedAttributes, CarriedSentinel)]_vars

\* The location page stored a record for a row with an empty name, after a
\* record whose name was copied.
C13_Witness ==
  /\ page = "location" /\ dsWrites = 1 /\ Len(locations) = 2
  /\ locations[1].name = <<"A">>
  /\ locations[2].name = UnnamedLocation /\ locations[2].lat = 0

\* C14: when the stored dataset is empty the selector yields the empty
\* result for any position, is not run by the session, the results stay
\* empty, and no error comes of it: the error is null or the position's.
C14_EmptyDatasetIsNoError ==
  (dsWrites >= 1 /\ locations = <<>>) =>
    /\ nearest = <<>> /\ selCalls = 0
    /\ dsError = <<>>
    /\ error \in {<<>>, posError}
    /\ \A position \in Positions : SelectorOutcomes(page, position, locations) = {<<>>}

\* An empty dataset and a position are both stored, and the effect has run.
C14_Witness ==
  /\ dsWrites = 1 /\ locations = <<>> /\ userLocation # <<>>
  /\ ~effectPending /\ error = <<>> /\ page = "bloodbank"

\* C15: a run of the selector leaves the stored dataset (same records, same
\* order) and the stored position as they were, and the selector run again
\* on them returns the very result it returned.
C15_SelectorLeavesInputs ==
  [][selCalls' > selCalls =>
       /\ locations' = locations
       /\ userLocation' = userLocation
       /\ SelectorOutcomes(page, userLocation'[1], locations') = {nearest'}]_vars

\* The three-nearest selector ran on a dataset it had to reorder: the first
\* stored record is not the nearest, and two records tie.
C15_Witness ==
  /\ page = "bloodbank" /\ selCalls = 1 /\ Len(locations) >= 3
  /\ StableRank(1) = 3
  /\ DistanceTo(2) = DistanceTo(3) /\ locations[2] # locations[3]

\* The step runs the position acquirer: the mount effect of the hospital and
\* location pages, or a click on 'Grant Location Access'.
AcquirerRuns == (Mount /\ page # "bloodbank") \/ GrantLocationAccess

\* C16: without a location service no location request is ever issued; the
\* step that runs the acquirer leaves the unsupported message as the error
\* and loading false; from then on loading stays false, the error stays
\* non-null and the position error stays that message; and the dataset path
\* goes on: its next step is enabled.
C16_UnsupportedIsTerminalPositionError ==
  [][~geolocation =>
       /\ geoCalls' = 0 /\ geoPending' = 0
       /\ AcquirerRuns =>
            (error' = UnsupportedMessage /\ posError' = UnsupportedMessage /\ ~isLoading')
       /\ posError # <<>> =>
            (posError' = UnsupportedMessage /\ error' # <<>> /\ ~isLoading')
       /\ (posError # <<>> /\ fetchSt = "fetching") => ENABLED ResponseOk
       /\ (posError # <<>> /\ fetchSt = "reading") =>
            ENABLED (\E csv \in CsvTexts(page) : ParseComplete(csv))]_vars

\* On the blood-bank page the click found no location service, and the
\* dataset is stored.
C16_Witness ==
  /\ ~geolocation /\ page = "bloodbank" /\ geoCalls = 0
  /\ error = UnsupportedMessage /\ ~isLoading
  /\ dsWrites = 1 /\ Len(locations) > 0 /\ firstDone = "dataset"

\* Accepted spellings of the phone column, the first being the one read.
PhoneAliases == <<"PhONE NO", "Phone No">>

\* item with the value of its first present alias also under the first
\* spelling of aliases.
UnderFirstSpelling(item, aliases) ==
  IF \A k \in 1..Len(aliases) : aliases[k] \notin DOMAIN item
  THEN item
  ELSE (aliases[1] :>
          item[aliases[CHOOSE k \in 1..Len(aliases) :
                         /\ aliases[k] \in DOMAIN item
                         /\ \A j \in 1..(k - 1) : aliases[j] \notin DOMAIN item]]) @@ item

\* C17: a dataset whose phone column uses any accepted spelling of the
\* header yields the same records as the dataset using the first spelling.
C17_AliasSpellingYieldsSameRecords ==
  [][\A csv \in ParserCsvTexts(page) :
       ParseComplete(csv) =>
         locations' = ParseRows(page, [i \in 1..Len(csv) |->
                                         UnderFirstSpelling(csv[i], PhoneAliases)])]_vars

\* ------------------------------------------------------------- the distance on its own
\* Coordinates the distance is computed between: both hemispheres, the
\* equator, the prime meridian and both sides of the antimeridian.
GridCoordinates ==
  {[lat |-> la, lng |-> lo] : la \in {-60, 0, 10, 45}, lo \in {-170, 0, 70, 170}}

\* The record a page stores for a row at coordinate c with no other column.
GridRecord(p, c) ==
  CASE p = "hospital" ->
         [lat |-> c.lat, lng |-> c.lng, name |-> NotAvailable, address |-> NotAvailable,
          pinCode |-> NotAvailable, phoneNo |-> NotAvailable, fax |-> NotAvailable]
    [] p = "location" ->
         [lat |-> c.lat, lng |-> c.lng, name |-> UnnamedLocation]
    [] p = "bloodbank" ->
         [lat |-> c.lat, lng |-> c.lng, name |-> NotAvailable, address |-> NotAvailable]

\* A position and a dataset of one record are stored, the nearest effect is
\* scheduled: its run computes the distance between the two.
DistInit ==
  /\ page \in Pages
  /\ geolocation = TRUE
  /\ mounted = TRUE
  /\ \E position \in GridCoordinates :
       /\ userLocation = <<position>>
       /\ mapUrl = <<position.lat, position.lng>>
  /\ isLoading = FALSE
  /\ error = <<>>
  /\ nearest = <<>>
  /\ \E c \in GridCoordinates : locations = <<GridRecord(page, c)>>
  /\ geoPending = 0
  /\ fetchSt = "done"
  /\ effectPending = TRUE
  /\ geoCalls = 1
  /\ fetchCalls = 1
  /\ posWrites = 1
  /\ dsWrites = 1
  /\ selCalls = 0
  /\ posError = <<>>
  /\ dsError = <<>>
  /\ firstDone = "dataset"

DistNext == NearestEffect

DistSpec == DistInit /\ [][DistNext]_vars

\* The distance the selector stored with its (first) result.
StoredDistance == nearest[1].distance

\* C18: the distance from a to b equals the distance from b to a, and the
\* distance from a point to itself is exactly 0: for the stored position
\* and each stored record, and for the distance the selector computed.
C18_DistanceSymmetricAndZeroOnSelf ==
  \A i \in 1..Len(locations) :
    /\ calculateDistance(userLocation[1], locations[i])
         = calculateDistance(locations[i], userLocation[1])
    /\ calculateDistance(userLocation[1], userLocation[1]) = 0
    /\ calculateDistance(locations[i], locations[i]) = 0
    /\ selCalls > 0 =>
         /\ StoredDistance = calculateDistance(locations[1], userLocation[1])
         /\ (locations[1].lat = userLocation[1].lat /\ locations[1].lng = userLocation[1].lng)
              => StoredDistance = 0

\* The selector computed a distance between two points of different
\* hemispheres across the antimeridian.
C18_Witness ==
  /\ selCalls = 1 /\ page = "hospital"
  /\ userLocation[1] = [lat |-> -60, lng |-> 170]
  /\ locations[1].lat = 45 /\ locations[1].lng = -170
  /\ StoredDistance > 0

\* C19: whenever the results are non-empty the session error is null,
\* loading is false and the stored position is non-null.
C19_ResultsOnlyWithoutErrorOrLoading ==
  nearest # <<>> => (error = <<>> /\ ~isLoading /\ userLocation # <<>>)

\* The hospital page shows a result; the position arrived before the dataset.
C19_Witness ==
  /\ page = "hospital" /\ nearest # <<>> /\ firstDone = "position"
  /\ geoPending = 0 /\ fetchSt = "done" /\ ~isLoading /\ error = <<>>

\* The step completes the position path: a location callback is delivered,
\* or the mount effect finds no location service.
PositionPathCompletes ==
  geoPending' < geoPending \/ (~mounted /\ mounted' /\ ~geolocation)

\* C20: on the hospital page the loading flag changes only from true to
\* false and only in a step that completes the position path, every such
\* step leaves it false (dataset events leave it as it is), and whenever
\* loading is false and the error is null the stored position is non-null.
C20_LoadingFollowsPositionPath ==
  [][page = "hospital" =>
       /\ isLoading' # isLoading => (isLoading /\ ~isLoading' /\ PositionPathCompletes)
       /\ PositionPathCompletes => ~isLoading'
       /\ (~isLoading' /\ error' = <<>>) => userLocation' # <<>>]_vars

\* The hospital page renders 'Your Location' while the dataset is loading.
C20_Witness ==
  /\ page = "hospital" /\ ~isLoading /\ error = <<>> /\ userLocation # <<>>
  /\ fetchSt = "fetching" /\ locations = <<>>

====
